---- MODULE Spec2Model ----
(***************************************************************************)
(* A model of the suggestion pipeline of music-agent: the free-text parser *)
(* (agent.rs), the suggestions report with its apply step and its JSON     *)
(* persistence (suggestions.rs), and the output path allocator with the    *)
(* copy-and-retag step (metadata/writer.rs), sequenced as main.rs does.    *)
(*                                                                         *)
(* Strings are sequences of chunks.  A chunk is a run of characters that   *)
(* no pattern the program searches for can straddle: each keyword of the   *)
(* block convention is one chunk, every other chunk is a single character  *)
(* or a plain word of letters.  The separator "---" is three "-" chunks,   *)
(* and a numeral is spelt digit by digit.                                  *)
(***************************************************************************)
EXTENDS Integers, Sequences, FiniteSets, TLC

VARIABLES
    pc,          \* position of the invocation being modelled
    response,    \* the model's text (llm_response)
    parsed,      \* the value parse_suggestions returned
    metadata,    \* suggestions mode: the TrackMetadata read from the file
    llm,         \* the calls of generate made, and whether the last one failed
    report,      \* suggestions mode: the SuggestionsReport that is saved
    saved_path,  \* the path save_to_file returned
    loaded,      \* apply mode: the Result of load_from_file
    updated,     \* apply_suggestions: the record being built
    idx,         \* apply_suggestions: the edit the loop is at
    caller,      \* who calls create_output_path: "apply" (main) or "test"
    original,    \* write_metadata_safely: original_file
    output_path, \* create_output_path: output_path
    counter,     \* create_output_path: counter
    disk,        \* the file system: resolved path -> directory or file
    written      \* the resolved paths whose content has been written

parseVars == <<response, parsed>>
agentVars == <<metadata, llm>>
applyVars == <<updated, idx>>
allocVars == <<caller, original, output_path, counter>>
fsVars    == <<disk, written>>
vars      == <<pc, response, parsed, metadata, llm, report, saved_path, loaded, updated, idx,
               caller, original, output_path, counter, disk, written>>

\* the values of the variables an invocation has not set or does not use
Unused    == "unused"
NoPath    == <<>>
NotLoaded == [ok |-> FALSE, pending |-> TRUE]
NoCall    == [calls |-> 0, failed |-> FALSE]

(***************************************************************************)
(* std::str operations used by the program, on chunk sequences.            *)
(***************************************************************************)
K_SUGGESTION == "SUGGESTION:"
K_CURRENT    == "CURRENT:"
K_SUGGESTED  == "SUGGESTED:"
K_CONFIDENCE == "CONFIDENCE:"
K_REASON     == "REASON:"
SENTINEL     == "NO_SUGGESTIONS_NEEDED"
SEPARATOR    == <<"-", "-", "-">>
NL           == "\n"
SP           == " "
WhiteSpace   == {SP, NL, "\t", "\r"}

\* pat occurs in s at position i
MatchAt(s, pat, i) ==
    /\ i >= 1
    /\ i + Len(pat) - 1 <= Len(s)
    /\ \A k \in 1..Len(pat) : s[i + k - 1] = pat[k]

\* str::contains
Contains(s, pat) == \E i \in 1..(Len(s) - Len(pat) + 1) : MatchAt(s, pat, i)

\* str::starts_with
StartsWith(s, pat) == MatchAt(s, pat, 1)

\* str::split(pat): leftmost, non-overlapping matches; always at least one piece
RECURSIVE SplitFrom(_, _, _, _)
SplitFrom(s, pat, i, start) ==
    IF i + Len(pat) - 1 > Len(s)
    THEN <<SubSeq(s, start, Len(s))>>
    ELSE IF MatchAt(s, pat, i)
         THEN <<SubSeq(s, start, i - 1)>>
                  \o SplitFrom(s, pat, i + Len(pat), i + Len(pat))
         ELSE SplitFrom(s, pat, i + 1, start)

Split(s, pat) == SplitFrom(s, pat, 1, 1)

\* str::lines: pieces between "\n"; a trailing empty piece is not a line,
\* and one "\r" before the line end is dropped
StripCR(l) == IF Len(l) > 0 /\ l[Len(l)] = "\r" THEN SubSeq(l, 1, Len(l) - 1) ELSE l

Lines(s) ==
    LET pieces == Split(s, <<NL>>)
        n      == Len(pieces)
        kept   == IF pieces[n] = <<>> THEN SubSeq(pieces, 1, n - 1) ELSE pieces
    IN  [i \in 1..Len(kept) |-> IF i < n THEN StripCR(kept[i]) ELSE kept[i]]

\* str::trim
RECURSIVE TrimStart(_)
TrimStart(s) ==
    IF s # <<>> /\ Head(s) \in WhiteSpace THEN TrimStart(Tail(s)) ELSE s

RECURSIVE TrimEnd(_)
TrimEnd(s) ==
    IF s # <<>> /\ s[Len(s)] \in WhiteSpace
    THEN TrimEnd(SubSeq(s, 1, Len(s) - 1))
    ELSE s

Trim(s) == TrimEnd(TrimStart(s))

\* str::replace(kw, ""): every occurrence of the keyword chunk is removed
ReplaceAll(s, kw) == SelectSeq(s, LAMBDA c : c # kw)

(***************************************************************************)
(* Option<T>                                                               *)
(***************************************************************************)
None    == [some |-> FALSE]
Some(v) == [some |-> TRUE, val |-> v]

(***************************************************************************)
(* MusicAgent::parse_suggestions (agent.rs)                                *)
(***************************************************************************)
\* the accumulators a block starts with
BlockStart ==
    [field |-> <<>>, current |-> None, suggested |-> <<>>,
     confidence |-> <<"Medium">>, reason |-> <<>>]

\* the value a recognised line carries
StripPrefix(line, kw) == Trim(ReplaceAll(line, kw))

\* one iteration of `for line in lines`
ScanLine(acc, rawline) ==
    LET line == Trim(rawline) IN
    IF StartsWith(line, <<K_SUGGESTION>>)
    THEN [acc EXCEPT !.field = StripPrefix(line, K_SUGGESTION)]
    ELSE IF StartsWith(line, <<K_CURRENT>>)
    THEN LET val == StripPrefix(line, K_CURRENT) IN
         IF val # <<"None">> /\ val # <<>>
         THEN [acc EXCEPT !.current = Some(val)]
         ELSE acc
    ELSE IF StartsWith(line, <<K_SUGGESTED>>)
    THEN [acc EXCEPT !.suggested = StripPrefix(line, K_SUGGESTED)]
    ELSE IF StartsWith(line, <<K_CONFIDENCE>>)
    THEN [acc EXCEPT !.confidence = StripPrefix(line, K_CONFIDENCE)]
    ELSE IF StartsWith(line, <<K_REASON>>)
    THEN [acc EXCEPT !.reason = StripPrefix(line, K_REASON)]
    ELSE acc

RECURSIVE ScanLines(_, _)
ScanLines(acc, lines) ==
    IF lines = <<>> THEN acc ELSE ScanLines(ScanLine(acc, Head(lines)), Tail(lines))

\* `if block.trim().is_empty() || !block.contains("SUGGESTION:") { continue; }`
BlockSkipped(block) == Trim(block) = <<>> \/ ~Contains(block, <<K_SUGGESTION>>)

\* a variant that tests the field name alone
Emits_field_only(acc) == acc.field # <<>>

\* `if !field.is_empty() && !suggested.is_empty()`
Emits(acc) == acc.field # <<>> /\ acc.suggested # <<>>

MetadataSuggestion(acc) ==
    [field |-> acc.field, current_value |-> acc.current,
     suggested_value |-> acc.suggested, confidence |-> acc.confidence,
     reason |-> acc.reason]

\* the edits one block pushes: none or one
ParseBlock(block) ==
    IF BlockSkipped(block)
    THEN <<>>
    ELSE LET acc == ScanLines(BlockStart, Lines(block)) IN
         IF Emits(acc) THEN <<MetadataSuggestion(acc)>> ELSE <<>>

\* a variant that keeps one edit for a field name, the last
RECURSIVE ParseBlocks_one_per_field(_)
ParseBlocks_one_per_field(blocks) ==
    IF blocks = <<>> THEN <<>>
    ELSE LET first == ParseBlock(Head(blocks))
             rest  == ParseBlocks_one_per_field(Tail(blocks))
         IN  IF first # <<>> /\ \E i \in 1..Len(rest) : rest[i].field = first[1].field
             THEN rest
             ELSE first \o rest

RECURSIVE ParseBlocks(_)
ParseBlocks(blocks) ==
    IF blocks = <<>> THEN <<>> ELSE ParseBlock(Head(blocks)) \o ParseBlocks(Tail(blocks))

SplitBlocks(text) == Split(text, SEPARATOR)

\* a variant that accepts the sentinel only as the whole answer
HasSentinel_whole_text(text) == Trim(text) = <<SENTINEL>>

\* `response.contains("NO_SUGGESTIONS_NEEDED")`
HasSentinel(text) == Contains(text, <<SENTINEL>>)

parse_suggestions(text) ==
    IF HasSentinel(text) THEN <<>> ELSE ParseBlocks(SplitBlocks(text))

(***************************************************************************)
(* str::parse::<i32>() and str::parse::<u32>() (core::num): an optional    *)
(* sign, then one or more digits, no white space; a value outside the      *)
(* type's range is an error.  The unsigned types accept "+" and no "-".    *)
(***************************************************************************)
Digits == <<"0", "1", "2", "3", "4", "5", "6", "7", "8", "9">>

IsDigit(c) == \E d \in 1..10 : Digits[d] = c

DigitValue(c) == (CHOOSE d \in 1..10 : Digits[d] = c) - 1

\* the value is accumulated digit by digit, away from zero for a negative
\* numeral, as from_str_radix does
RECURSIVE DecimalValue(_, _, _)
DecimalValue(ds, acc, neg) ==
    IF ds = <<>> THEN acc
    ELSE DecimalValue(Tail(ds),
                      IF neg THEN 10 * acc - DigitValue(Head(ds))
                             ELSE 10 * acc + DigitValue(Head(ds)),
                      neg)

\* the magnitudes of i32::MIN, i32::MAX and u32::MAX, as numerals: the range
\* test is made on the digits, since u32::MAX is beyond the checker's integers
I32_MIN_MAGNITUDE == <<"2", "1", "4", "7", "4", "8", "3", "6", "4", "8">>
I32_MAX_DIGITS    == <<"2", "1", "4", "7", "4", "8", "3", "6", "4", "7">>
U32_MAX_DIGITS    == <<"4", "2", "9", "4", "9", "6", "7", "2", "9", "5">>

RECURSIVE StripZeros(_)
StripZeros(ds) ==
    IF Len(ds) > 1 /\ Head(ds) = "0" THEN StripZeros(Tail(ds)) ELSE ds

RECURSIVE NumeralLeq(_, _)
NumeralLeq(a, b) ==      \* a <= b for numerals of the same length
    IF a = <<>> THEN TRUE
    ELSE IF DigitValue(Head(a)) # DigitValue(Head(b))
         THEN DigitValue(Head(a)) < DigitValue(Head(b))
         ELSE NumeralLeq(Tail(a), Tail(b))

Fits(ds, limit) ==
    LET n == StripZeros(ds) IN
    Len(n) < Len(limit) \/ (Len(n) = Len(limit) /\ NumeralLeq(n, limit))

Err == [ok |-> FALSE]
Ok(v) == [ok |-> TRUE, val |-> v]

ParseDecimal(s, signed, negLimit, posLimit) ==
    LET neg  == signed /\ s # <<>> /\ Head(s) = "-"
        sign == s # <<>> /\ (Head(s) = "+" \/ neg)
        ds   == IF sign THEN Tail(s) ELSE s
    IN  IF ds = <<>> \/ \E i \in 1..Len(ds) : ~IsDigit(ds[i])
        THEN Err
        ELSE IF ~Fits(ds, IF neg THEN negLimit ELSE posLimit)
        THEN Err
        ELSE Ok(DecimalValue(ds, 0, neg))

ParseI32(s) == ParseDecimal(s, TRUE, I32_MIN_MAGNITUDE, I32_MAX_DIGITS)

ParseU32(s) == ParseDecimal(s, FALSE, <<"0">>, U32_MAX_DIGITS)

(***************************************************************************)
(* SuggestionsReport::apply_suggestions (suggestions.rs)                   *)
(***************************************************************************)
\* a variant in which an edit is applied only to a field that is still unset
ApplyEdit_keep_first(rec, s) ==
    IF s.field = <<"artist">> /\ ~rec.artist.some
    THEN [rec EXCEPT !.artist = Some(s.suggested_value)]
    ELSE IF s.field = <<"title">> /\ ~rec.title.some
    THEN [rec EXCEPT !.title = Some(s.suggested_value)]
    ELSE IF s.field = <<"album">> /\ ~rec.album.some
    THEN [rec EXCEPT !.album = Some(s.suggested_value)]
    ELSE IF s.field = <<"year">> /\ ~rec.year.some /\ ParseI32(s.suggested_value).ok
    THEN [rec EXCEPT !.year = Some(ParseI32(s.suggested_value).val)]
    ELSE IF s.field = <<"genre">> /\ ~rec.genre.some
    THEN [rec EXCEPT !.genre = Some(s.suggested_value)]
    ELSE IF s.field = <<"album_artist">> /\ ~rec.album_artist.some
    THEN [rec EXCEPT !.album_artist = Some(s.suggested_value)]
    ELSE IF s.field = <<"track_number">> /\ ~rec.track_number.some
              /\ ParseU32(s.suggested_value).ok
    THEN [rec EXCEPT !.track_number = Some(ParseU32(s.suggested_value).val)]
    ELSE rec

\* a variant that stores the parse result itself (`parse().ok()`), so that a
\* failed parse clears the tag
ApplyEdit_store_parse(rec, s) ==
    IF s.field = <<"artist">>
    THEN [rec EXCEPT !.artist = Some(s.suggested_value)]
    ELSE IF s.field = <<"title">>
    THEN [rec EXCEPT !.title = Some(s.suggested_value)]
    ELSE IF s.field = <<"album">>
    THEN [rec EXCEPT !.album = Some(s.suggested_value)]
    ELSE IF s.field = <<"year">>
    THEN [rec EXCEPT !.year =
              IF ParseI32(s.suggested_value).ok
              THEN Some(ParseI32(s.suggested_value).val) ELSE None]
    ELSE IF s.field = <<"genre">>
    THEN [rec EXCEPT !.genre = Some(s.suggested_value)]
    ELSE IF s.field = <<"album_artist">>
    THEN [rec EXCEPT !.album_artist = Some(s.suggested_value)]
    ELSE IF s.field = <<"track_number">>
    THEN [rec EXCEPT !.track_number =
              IF ParseU32(s.suggested_value).ok
              THEN Some(ParseU32(s.suggested_value).val) ELSE None]
    ELSE rec

\* the body of `for suggestion in &self.suggestions`: the match on the field name
ApplyEdit(rec, s) ==
    IF s.field = <<"artist">>
    THEN [rec EXCEPT !.artist = Some(s.suggested_value)]
    ELSE IF s.field = <<"title">>
    THEN [rec EXCEPT !.title = Some(s.suggested_value)]
    ELSE IF s.field = <<"album">>
    THEN [rec EXCEPT !.album = Some(s.suggested_value)]
    ELSE IF s.field = <<"year">>
    THEN IF ParseI32(s.suggested_value).ok
         THEN [rec EXCEPT !.year = Some(ParseI32(s.suggested_value).val)]
         ELSE rec
    ELSE IF s.field = <<"genre">>
    THEN [rec EXCEPT !.genre = Some(s.suggested_value)]
    ELSE IF s.field = <<"album_artist">>
    THEN [rec EXCEPT !.album_artist = Some(s.suggested_value)]
    ELSE IF s.field = <<"track_number">>
    THEN IF ParseU32(s.suggested_value).ok
         THEN [rec EXCEPT !.track_number = Some(ParseU32(s.suggested_value).val)]
         ELSE rec
    ELSE rec

\* the whole function, as main calls it
RECURSIVE ApplyEdits(_, _)
ApplyEdits(rec, edits) ==
    IF edits = <<>> THEN rec ELSE ApplyEdits(ApplyEdit(rec, Head(edits)), Tail(edits))

apply_suggestions(r) == ApplyEdits(r.current_metadata, r.suggestions)

\* `let mut updated = self.current_metadata.clone();`
ApplyClone ==
    /\ pc = "apply"
    /\ updated' = loaded.val.current_metadata
    /\ idx' = 1
    /\ pc' = "apply_loop"
    /\ UNCHANGED <<report, saved_path, loaded, parseVars, agentVars, allocVars, fsVars>>

\* one iteration of the loop over the stored edits
ApplyNext ==
    /\ pc = "apply_loop"
    /\ idx <= Len(loaded.val.suggestions)
    /\ updated' = ApplyEdit(updated, loaded.val.suggestions[idx])
    /\ idx' = idx + 1
    /\ UNCHANGED <<pc, report, saved_path, loaded, parseVars, agentVars, allocVars, fsVars>>

\* the loop is over: `updated` is returned
ApplyReturn ==
    /\ pc = "apply_loop"
    /\ idx > Len(loaded.val.suggestions)
    /\ pc' = "applied"
    /\ UNCHANGED <<report, saved_path, loaded, updated, idx, parseVars, agentVars, allocVars, fsVars>>

(***************************************************************************)
(* std::path.  A Path is the sequence of its components, each a chunk      *)
(* sequence; the root "/" and the names "." and ".." are components of     *)
(* their own.  "/" and "." are chunks of their own in every string.        *)
(***************************************************************************)
SLASH     == "/"
DOT       == "."
RootDir   == <<SLASH>>
CurDir    == <<DOT>>
ParentDir == <<DOT, DOT>>

\* Path::new(s).components(): empty pieces and inner "." pieces are no components
RECURSIVE NormalPieces(_, _)
NormalPieces(pieces, first) ==
    IF pieces = <<>> THEN <<>>
    ELSE (IF Head(pieces) = <<>> \/ (Head(pieces) = CurDir /\ ~first)
          THEN <<>> ELSE <<Head(pieces)>>)
             \o NormalPieces(Tail(pieces), first /\ Head(pieces) = <<>>)

PathNew(s) ==
    IF s = <<>> THEN <<>>
    ELSE IF Head(s) = SLASH
         THEN <<RootDir>> \o NormalPieces(Split(s, <<SLASH>>), FALSE)
         ELSE NormalPieces(Split(s, <<SLASH>>), TRUE)

\* Path::to_string_lossy, for the paths the program builds
RECURSIVE to_string_lossy(_)
to_string_lossy(p) ==
    IF p = <<>> THEN <<>>
    ELSE IF Len(p) = 1 THEN p[1]
    ELSE IF p[1] = RootDir THEN RootDir \o to_string_lossy(Tail(p))
    ELSE p[1] \o <<SLASH>> \o to_string_lossy(Tail(p))

\* Path::parent: None for the empty path and for a path that ends in the root
Parent(p) ==
    IF p = <<>> \/ p[Len(p)] = RootDir THEN None ELSE Some(SubSeq(p, 1, Len(p) - 1))

\* Path::file_name: the last component, when it is a normal one
FileName(p) ==
    IF p = <<>> \/ p[Len(p)] \in {RootDir, CurDir, ParentDir}
    THEN None ELSE Some(p[Len(p)])

\* Path::file_stem: the name up to its last "."; the whole name when it has
\* no "." or only a leading one
FileStem(p) ==
    IF ~FileName(p).some THEN None
    ELSE LET name == FileName(p).val
             dots == {i \in 1..Len(name) : name[i] = DOT}
         IN  IF dots = {} THEN Some(name)
             ELSE LET last == CHOOSE i \in dots : \A j \in dots : j <= i
                  IN  IF last = 1 THEN Some(name) ELSE Some(SubSeq(name, 1, last - 1))

\* Path::ends_with(name), for a one-component name
EndsWith(p, name) == p # <<>> /\ p[Len(p)] = <<name>>

\* Path::join(s): a relative s is appended, an absolute one replaces
Join(p, s) ==
    IF s # <<>> /\ Head(s) = SLASH THEN PathNew(s) ELSE p \o PathNew(s)

\* Option::unwrap_or
UnwrapOr(opt, default) == IF opt.some THEN opt.val ELSE default

(***************************************************************************)
(* The directory both call sites derive from the source path.              *)
(***************************************************************************)
\* a variant that goes up one level from every parent
suggestions_dir_always_up(path) ==
    IF Parent(path).some
    THEN Join(UnwrapOr(Parent(Parent(path).val), Parent(path).val), <<"suggestions">>)
    ELSE PathNew(<<"public", SLASH, "suggestions">>)

\* save_to_file: `let suggestions_dir = if let Some(parent) = path.parent() ...`
suggestions_dir(path) ==
    IF Parent(path).some
    THEN LET parent == Parent(path).val IN
         IF EndsWith(parent, "originals")
         THEN Join(UnwrapOr(Parent(parent), parent), <<"suggestions">>)
         ELSE IF EndsWith(parent, "public")
         THEN Join(parent, <<"suggestions">>)
         ELSE Join(parent, <<"suggestions">>)
    ELSE PathNew(<<"public", SLASH, "suggestions">>)

\* create_output_path: `let updated_dir = if let Some(parent) = original.parent() ...`
updated_dir(path) ==
    IF Parent(path).some
    THEN LET parent == Parent(path).val IN
         IF EndsWith(parent, "originals")
         THEN Join(UnwrapOr(Parent(parent), parent), <<"updated">>)
         ELSE IF EndsWith(parent, "public")
         THEN Join(parent, <<"updated">>)
         ELSE Join(parent, <<"updated">>)
    ELSE PathNew(<<"public", SLASH, "updated">>)

\* integer Display (`{}` of the counter), for a counter that is not negative
RECURSIVE Numeral(_)
Numeral(n) ==
    IF n < 10 THEN <<Digits[n + 1]>> ELSE Numeral(n \div 10) \o <<Digits[(n % 10) + 1]>>

\* `format!("{}.mp3", stem)` and `format!("{}-{}.mp3", stem, counter)`
FirstName(stem) == stem \o <<DOT, "mp3">>
NumberedName(stem, n) == stem \o <<"-">> \o Numeral(n) \o <<DOT, "mp3">>

(***************************************************************************)
(* serde_json::to_string_pretty of a SuggestionsReport (derive(Serialize)): *)
(* the fields in declaration order, two spaces of indentation, strings     *)
(* escaped, an absent Option written null.                                 *)
(***************************************************************************)
QUOTE     == "\""
BACKSLASH == "\\"
TAB       == "\t"
CR        == "\r"

\* a variant that escapes the quote alone
EscapeChunk_quote_only(c) == IF c = QUOTE THEN <<BACKSLASH, QUOTE>> ELSE <<c>>

\* the escape of one character of a string
EscapeChunk(c) ==
    IF c = QUOTE THEN <<BACKSLASH, QUOTE>>
    ELSE IF c = BACKSLASH THEN <<BACKSLASH, BACKSLASH>>
    ELSE IF c = NL THEN <<BACKSLASH, "n">>
    ELSE IF c = TAB THEN <<BACKSLASH, "t">>
    ELSE IF c = CR THEN <<BACKSLASH, "r">>
    ELSE <<c>>

RECURSIVE Escape(_)
Escape(str) == IF str = <<>> THEN <<>> ELSE EscapeChunk(Head(str)) \o Escape(Tail(str))

JsonString(str) == <<QUOTE>> \o Escape(str) \o <<QUOTE>>

\* the decimal numeral of an i32 or u32, built from the low digit up without
\* negating the value
RECURSIVE NumeralOfNegative(_)
NumeralOfNegative(n) ==      \* the digits of -n, for n < 0
    LET d == (10 - (n % 10)) % 10 IN
    IF n > -10 THEN <<Digits[d + 1]>>
    ELSE NumeralOfNegative((n + d) \div 10) \o <<Digits[d + 1]>>

JsonInteger(n) == IF n < 0 THEN <<"-">> \o NumeralOfNegative(n) ELSE Numeral(n)

JsonOptString(opt) == IF opt.some THEN JsonString(opt.val) ELSE <<"null">>
JsonOptInteger(opt) == IF opt.some THEN JsonInteger(opt.val) ELSE <<"null">>
JsonBool(b) == IF b THEN <<"true">> ELSE <<"false">>

RECURSIVE Indent(_)
Indent(depth) == IF depth = 0 THEN <<>> ELSE <<SP, SP>> \o Indent(depth - 1)

\* `"key": value` on a line of its own; `last` is the object's last member
Member(depth, key, value, last) ==
    <<NL>> \o Indent(depth) \o JsonString(<<key>>) \o <<":", SP>> \o value
        \o (IF last THEN <<>> ELSE <<",">>)

JsonObject(depth, members) == <<"{">> \o members \o <<NL>> \o Indent(depth) \o <<"}">>

JsonTrackMetadata(depth, m) ==
    JsonObject(depth,
        Member(depth + 1, "file_path", JsonString(m.file_path), FALSE)
        \o Member(depth + 1, "artist", JsonOptString(m.artist), FALSE)
        \o Member(depth + 1, "title", JsonOptString(m.title), FALSE)
        \o Member(depth + 1, "album", JsonOptString(m.album), FALSE)
        \o Member(depth + 1, "year", JsonOptInteger(m.year), FALSE)
        \o Member(depth + 1, "genre", JsonOptString(m.genre), FALSE)
        \o Member(depth + 1, "track_number", JsonOptInteger(m.track_number), FALSE)
        \o Member(depth + 1, "album_artist", JsonOptString(m.album_artist), FALSE)
        \o Member(depth + 1, "duration_seconds", JsonOptInteger(m.duration_seconds), TRUE))

JsonSuggestion(depth, e) ==
    JsonObject(depth,
        Member(depth + 1, "field", JsonString(e.field), FALSE)
        \o Member(depth + 1, "current_value", JsonOptString(e.current_value), FALSE)
        \o Member(depth + 1, "suggested_value", JsonString(e.suggested_value), FALSE)
        \o Member(depth + 1, "confidence", JsonString(e.confidence), FALSE)
        \o Member(depth + 1, "reason", JsonString(e.reason), TRUE))

RECURSIVE JsonElements(_, _)
JsonElements(depth, edits) ==
    IF edits = <<>> THEN <<>>
    ELSE <<NL>> \o Indent(depth) \o JsonSuggestion(depth, Head(edits))
            \o (IF Len(edits) > 1 THEN <<",">> ELSE <<>>)
            \o JsonElements(depth, Tail(edits))

JsonSuggestions(depth, edits) ==
    IF edits = <<>> THEN <<"[", "]">>
    ELSE <<"[">> \o JsonElements(depth + 1, edits) \o <<NL>> \o Indent(depth) \o <<"]">>

\* serde_json::to_string_pretty(self)
to_string_pretty(r) ==
    JsonObject(0,
        Member(1, "file_path", JsonString(r.file_path), FALSE)
        \o Member(1, "timestamp", JsonString(r.timestamp), FALSE)
        \o Member(1, "current_metadata", JsonTrackMetadata(1, r.current_metadata), FALSE)
        \o Member(1, "suggestions", JsonSuggestions(1, r.suggestions), FALSE)
        \o Member(1, "llm_analysis", JsonString(r.llm_analysis), FALSE)
        \o Member(1, "should_apply", JsonBool(r.should_apply), TRUE))

(***************************************************************************)
(* serde_json::from_str: the text is read into a JSON value, position by   *)
(* position, and the value is turned into the struct field by field.  A    *)
(* reader returns [ok, val, pos]; pos is the position after what it read.  *)
(***************************************************************************)
Fail == [ok |-> FALSE]
Read(v, i) == [ok |-> TRUE, val |-> v, pos |-> i]

\* serde_json::Value: its kind and its content
JValue(kind, v) == [t |-> kind, v |-> v]

RECURSIVE SkipWs(_, _)
SkipWs(s, i) == IF i <= Len(s) /\ s[i] \in WhiteSpace THEN SkipWs(s, i + 1) ELSE i

\* the character an escape stands for; "" for an escape the model does not read
Unescape(c) ==
    IF c = QUOTE THEN QUOTE
    ELSE IF c = BACKSLASH THEN BACKSLASH
    ELSE IF c = SLASH THEN SLASH
    ELSE IF c = "n" THEN NL
    ELSE IF c = "t" THEN TAB
    ELSE IF c = "r" THEN CR
    ELSE ""

\* the characters of a string, from after its opening quote to its closing one;
\* a raw control character is an error
RECURSIVE ReadStringBody(_, _, _)
ReadStringBody(s, i, acc) ==
    IF i > Len(s) THEN Fail
    ELSE IF s[i] = QUOTE THEN Read(acc, i + 1)
    ELSE IF s[i] = BACKSLASH
         THEN IF i + 1 > Len(s) \/ Unescape(s[i + 1]) = "" THEN Fail
              ELSE ReadStringBody(s, i + 2, Append(acc, Unescape(s[i + 1])))
    ELSE IF s[i] \in {NL, TAB, CR} THEN Fail
    ELSE ReadStringBody(s, i + 1, Append(acc, s[i]))

RECURSIVE ReadDigits(_, _)
ReadDigits(s, i) == IF i <= Len(s) /\ IsDigit(s[i]) THEN ReadDigits(s, i + 1) ELSE i

\* an integer numeral: an optional "-", then "0" or digits that do not start with "0"
ReadNumber(s, i) ==
    LET from == IF s[i] = "-" THEN i + 1 ELSE i
        to   == ReadDigits(s, from)
    IN  IF to = from \/ (to > from + 1 /\ s[from] = "0") THEN Fail
        ELSE Read(JValue("num", SubSeq(s, i, to - 1)), to)

RECURSIVE ReadValue(_, _), ReadElements(_, _, _), ReadMembers(_, _, _)

ReadValue(s, at) ==
    LET i == SkipWs(s, at) IN
    IF i > Len(s) THEN Fail
    ELSE IF s[i] = QUOTE
         THEN LET r == ReadStringBody(s, i + 1, <<>>) IN
              IF r.ok THEN Read(JValue("str", r.val), r.pos) ELSE Fail
    ELSE IF s[i] = "null" THEN Read(JValue("null", <<>>), i + 1)
    ELSE IF s[i] = "true" THEN Read(JValue("bool", TRUE), i + 1)
    ELSE IF s[i] = "false" THEN Read(JValue("bool", FALSE), i + 1)
    ELSE IF s[i] = "-" \/ IsDigit(s[i]) THEN ReadNumber(s, i)
    ELSE IF s[i] = "["
         THEN LET j == SkipWs(s, i + 1) IN
              IF j <= Len(s) /\ s[j] = "]" THEN Read(JValue("arr", <<>>), j + 1)
              ELSE ReadElements(s, j, <<>>)
    ELSE IF s[i] = "{"
         THEN LET j == SkipWs(s, i + 1) IN
              IF j <= Len(s) /\ s[j] = "}" THEN Read(JValue("obj", <<>>), j + 1)
              ELSE ReadMembers(s, j, <<>>)
    ELSE Fail

\* the elements of an array, from its first one
ReadElements(s, at, acc) ==
    LET r == ReadValue(s, at) IN
    IF ~r.ok THEN Fail
    ELSE LET j == SkipWs(s, r.pos) IN
         IF j > Len(s) THEN Fail
         ELSE IF s[j] = "," THEN ReadElements(s, j + 1, Append(acc, r.val))
         ELSE IF s[j] = "]" THEN Read(JValue("arr", Append(acc, r.val)), j + 1)
         ELSE Fail

\* the members of an object, from its first key
ReadMembers(s, at, acc) ==
    LET i == SkipWs(s, at) IN
    IF i > Len(s) \/ s[i] # QUOTE THEN Fail
    ELSE LET k == ReadStringBody(s, i + 1, <<>>) IN
         IF ~k.ok THEN Fail
         ELSE LET c == SkipWs(s, k.pos) IN
              IF c > Len(s) \/ s[c] # ":" THEN Fail
              ELSE LET r == ReadValue(s, c + 1) IN
                   IF ~r.ok THEN Fail
                   ELSE LET j == SkipWs(s, r.pos) IN
                        IF j > Len(s) THEN Fail
                        ELSE IF s[j] = ","
                             THEN ReadMembers(s, j + 1, Append(acc, <<k.val, r.val>>))
                        ELSE IF s[j] = "}"
                             THEN Read(JValue("obj", Append(acc, <<k.val, r.val>>)), j + 1)
                        ELSE Fail

\* the whole text is one value; only white space may follow it
ReadDocument(s) ==
    LET r == ReadValue(s, 1) IN
    IF r.ok /\ SkipWs(s, r.pos) > Len(s) THEN Ok(r.val) ELSE Err

\* the typed readers of the derived Deserialize
AsString(v) == IF v.t = "str" THEN Ok(v.v) ELSE Err
AsBool(v)   == IF v.t = "bool" THEN Ok(v.v) ELSE Err
AsOptString(v) ==
    IF v.t = "null" THEN Ok(None) ELSE IF v.t = "str" THEN Ok(Some(v.v)) ELSE Err
AsOptI32(v) ==
    IF v.t = "null" THEN Ok(None)
    ELSE IF v.t = "num" /\ ParseI32(v.v).ok THEN Ok(Some(ParseI32(v.v).val))
    ELSE Err
AsOptU32(v) ==
    IF v.t = "null" THEN Ok(None)
    ELSE IF v.t = "num" /\ ParseU32(v.v).ok THEN Ok(Some(ParseU32(v.v).val))
    ELSE Err

\* a field of a struct read from an object: a key given twice is an error, a
\* key not given is an error unless the field is an Option, other keys are
\* passed over
MembersNamed(ms, key) == {i \in 1..Len(ms) : ms[i][1] = <<key>>}

Field(ms, key, As(_), optional) ==
    LET at == MembersNamed(ms, key) IN
    IF at = {} THEN (IF optional THEN Ok(None) ELSE Err)
    ELSE IF Cardinality(at) > 1 THEN Err
    ELSE As(ms[CHOOSE i \in at : TRUE][2])

AsTrackMetadata(v) ==
    IF v.t # "obj" THEN Err
    ELSE LET file_path    == Field(v.v, "file_path", AsString, FALSE)
             artist       == Field(v.v, "artist", AsOptString, TRUE)
             title        == Field(v.v, "title", AsOptString, TRUE)
             album        == Field(v.v, "album", AsOptString, TRUE)
             year         == Field(v.v, "year", AsOptI32, TRUE)
             genre        == Field(v.v, "genre", AsOptString, TRUE)
             track_number == Field(v.v, "track_number", AsOptU32, TRUE)
             album_artist == Field(v.v, "album_artist", AsOptString, TRUE)
             duration     == Field(v.v, "duration_seconds", AsOptU32, TRUE)
         IN  IF file_path.ok /\ artist.ok /\ title.ok /\ album.ok /\ year.ok
                  /\ genre.ok /\ track_number.ok /\ album_artist.ok /\ duration.ok
             THEN Ok([file_path |-> file_path.val, artist |-> artist.val,
                      title |-> title.val, album |-> album.val, year |-> year.val,
                      genre |-> genre.val, track_number |-> track_number.val,
                      album_artist |-> album_artist.val,
                      duration_seconds |-> duration.val])
             ELSE Err

AsSuggestion(v) ==
    IF v.t # "obj" THEN Err
    ELSE LET field      == Field(v.v, "field", AsString, FALSE)
             current    == Field(v.v, "current_value", AsOptString, TRUE)
             suggested  == Field(v.v, "suggested_value", AsString, FALSE)
             confidence == Field(v.v, "confidence", AsString, FALSE)
             reason     == Field(v.v, "reason", AsString, FALSE)
         IN  IF field.ok /\ current.ok /\ suggested.ok /\ confidence.ok /\ reason.ok
             THEN Ok([field |-> field.val, current_value |-> current.val,
                      suggested_value |-> suggested.val,
                      confidence |-> confidence.val, reason |-> reason.val])
             ELSE Err

AsSuggestions(v) ==
    IF v.t # "arr" \/ \E i \in 1..Len(v.v) : ~AsSuggestion(v.v[i]).ok THEN Err
    ELSE Ok([i \in 1..Len(v.v) |-> AsSuggestion(v.v[i]).val])

AsSuggestionsReport(v) ==
    IF v.t # "obj" THEN Err
    ELSE LET file_path   == Field(v.v, "file_path", AsString, FALSE)
             timestamp   == Field(v.v, "timestamp", AsString, FALSE)
             snapshot    == Field(v.v, "current_metadata", AsTrackMetadata, FALSE)
             suggestions == Field(v.v, "suggestions", AsSuggestions, FALSE)
             analysis    == Field(v.v, "llm_analysis", AsString, FALSE)
             apply       == Field(v.v, "should_apply", AsBool, FALSE)
         IN  IF file_path.ok /\ timestamp.ok /\ snapshot.ok /\ suggestions.ok
                  /\ analysis.ok /\ apply.ok
             THEN Ok([file_path |-> file_path.val, timestamp |-> timestamp.val,
                      current_metadata |-> snapshot.val,
                      suggestions |-> suggestions.val,
                      llm_analysis |-> analysis.val, should_apply |-> apply.val])
             ELSE Err

\* serde_json::from_str::<SuggestionsReport>(&json)
from_str(json) ==
    IF ReadDocument(json).ok THEN AsSuggestionsReport(ReadDocument(json).val) ELSE Err

(***************************************************************************)
(* std::fs.  The file system maps a resolved path (its components without  *)
(* ".") to a directory or to a file with its content; the working          *)
(* directory is the empty path and, like the root, always there.  Every    *)
(* entry's parent is a directory of the map.                               *)
(***************************************************************************)
Dir        == [kind |-> "dir"]
File(data) == [kind |-> "file", data |-> data]

Resolve(p) == SelectSeq(p, LAMBDA c : c # CurDir)

\* Path::exists: the empty path names nothing
Exists(d, p) == p # <<>> /\ Resolve(p) \in DOMAIN d

IsFile(d, p) == Exists(d, p) /\ d[Resolve(p)].kind = "file"

\* fs::create_dir_all: the missing directories are made from the top down; a
\* file in the way is an error, and what was made before it stays
RECURSIVE MkdirFrom(_, _, _)
MkdirFrom(d, key, n) ==
    IF n > Len(key) THEN [ok |-> TRUE, disk |-> d]
    ELSE LET prefix == SubSeq(key, 1, n) IN
         IF prefix \in DOMAIN d
         THEN IF d[prefix].kind = "dir" THEN MkdirFrom(d, key, n + 1)
              ELSE [ok |-> FALSE, disk |-> d]
         ELSE MkdirFrom((prefix :> Dir) @@ d, key, n + 1)

CreateDirAll(d, p) == MkdirFrom(d, Resolve(p), 1)

\* creating or truncating a file and writing its content: the parent must be
\* a directory and the path must not name a directory
CanWrite(d, p) ==
    LET key == Resolve(p) IN
    /\ key # <<>>
    /\ key # <<RootDir>>
    /\ SubSeq(key, 1, Len(key) - 1) \in DOMAIN d
    /\ d[SubSeq(key, 1, Len(key) - 1)].kind = "dir"
    /\ (key \in DOMAIN d => d[key].kind = "file")

WriteFile(d, p, data) == (Resolve(p) :> File(data)) @@ d

\* the content of a file that fs::copy opened for writing before reading it
Truncated == [audio |-> "", tag |-> None]

(***************************************************************************)
(* SuggestionsReport::save_to_file and load_from_file (suggestions.rs)     *)
(***************************************************************************)
\* `suggestions_dir.join(format!("{}.suggestions.json", file_stem))`
suggestions_path(file_path) ==
    Join(suggestions_dir(PathNew(file_path)),
         UnwrapOr(FileStem(PathNew(file_path)), <<>>)
             \o <<DOT, "suggestions", DOT, "json">>)

SaveToFile ==
    /\ pc = "save"
    /\ LET dir  == suggestions_dir(PathNew(report.file_path))
           made == CreateDirAll(disk, dir)
           path == suggestions_path(report.file_path)
       IN  IF made.ok /\ CanWrite(made.disk, path)
           THEN /\ disk' = WriteFile(made.disk, path, to_string_pretty(report))
                /\ written' = written \cup {Resolve(path)}
                /\ saved_path' = to_string_lossy(path)
                /\ pc' = "saved"
           ELSE /\ disk' = made.disk
                /\ pc' = "failed"
                /\ UNCHANGED <<written, saved_path>>
    /\ UNCHANGED <<report, loaded, parseVars, agentVars, applyVars, allocVars>>

\* `fs::read_to_string(file_path)` then `serde_json::from_str(&json)`
load_from_file(d, file_path) ==
    IF IsFile(d, PathNew(file_path))
    THEN from_str(d[Resolve(PathNew(file_path))].data)
    ELSE Err

\* apply mode, run on the path that suggestions mode printed
LoadFromFile ==
    /\ pc = "saved"
    /\ loaded' = load_from_file(disk, saved_path)
    /\ pc' = IF loaded'.ok THEN "loaded" ELSE "failed"
    /\ UNCHANGED <<report, saved_path, parseVars, agentVars, applyVars, allocVars, fsVars>>

(***************************************************************************)
(* apply_suggestions_mode (main.rs)                                        *)
(***************************************************************************)
\* the listing, and the return when there is nothing to apply
ListSuggestions ==
    /\ pc = "loaded"
    /\ pc' = IF loaded.val.suggestions = <<>> THEN "done" ELSE "apply"
    /\ UNCHANGED <<report, saved_path, loaded, parseVars, agentVars, applyVars, allocVars, fsVars>>

(***************************************************************************)
(* write_metadata_safely and create_output_path (metadata/writer.rs)       *)
(***************************************************************************)
\* `if !original_path.exists() { return Err(...) }`
WriteCheck ==
    /\ pc = "applied"
    /\ original' = loaded.val.file_path
    /\ pc' = IF Exists(disk, PathNew(original')) THEN "alloc" ELSE "failed"
    /\ UNCHANGED <<report, saved_path, loaded, parseVars, agentVars, applyVars,
                   caller, output_path, counter, fsVars>>

Stem(file) == UnwrapOr(FileStem(PathNew(file)), <<>>)

\* `updated_dir.join(format!("{}.mp3", stem))`
FirstCandidate(file) == Join(updated_dir(PathNew(file)), FirstName(Stem(file)))

\* a variant that numbers every retry 1
NextCandidate_fixed(file, n) ==
    Join(updated_dir(PathNew(file)), NumberedName(Stem(file), 1))

\* `updated_dir.join(format!("{}-{}.mp3", stem, counter))`
NextCandidate(file, n) == Join(updated_dir(PathNew(file)), NumberedName(Stem(file), n))

\* the function up to its loop: the directory is made (a failure is dropped)
\* and the first candidate is formed
CreateOutputPath ==
    /\ pc = "alloc"
    /\ disk' = CreateDirAll(disk, updated_dir(PathNew(original))).disk
    /\ output_path' = FirstCandidate(original)
    /\ counter' = 1
    /\ pc' = "alloc_loop"
    /\ UNCHANGED <<report, saved_path, loaded, parseVars, agentVars, applyVars,
                   caller, original, written>>

\* `while output_path.exists()`: one more candidate
AllocNext ==
    /\ pc = "alloc_loop"
    /\ Exists(disk, output_path)
    /\ output_path' = NextCandidate(original, counter)
    /\ counter' = counter + 1
    /\ UNCHANGED <<pc, report, saved_path, loaded, parseVars, agentVars, applyVars,
                   caller, original, fsVars>>

\* the candidate does not exist: it is returned, to write_metadata_safely or
\* to the assertion of test_output_path_creation
AllocReturn ==
    /\ pc = "alloc_loop"
    /\ ~Exists(disk, output_path)
    /\ pc' = IF caller = "test" THEN "asserted" ELSE "copy"
    /\ UNCHANGED <<report, saved_path, loaded, parseVars, agentVars, applyVars, allocVars, fsVars>>

\* `fs::copy(original_path, &output_path)`: the source must be a file; the
\* destination is opened for writing before the source is read
CopyOriginal ==
    /\ pc = "copy"
    /\ IF IsFile(disk, PathNew(original)) /\ CanWrite(disk, output_path)
       THEN /\ disk' = WriteFile(disk, output_path,
                           IF Resolve(output_path) = Resolve(PathNew(original))
                           THEN Truncated
                           ELSE disk[Resolve(PathNew(original))].data)
            /\ written' = written \cup {Resolve(output_path)}
            /\ pc' = "tag"
       ELSE /\ pc' = "failed"
            /\ UNCHANGED fsVars
    /\ UNCHANGED <<report, saved_path, loaded, parseVars, agentVars, applyVars, allocVars>>

\* `if let Some(..) = metadata.x { tag.set_x(..) }`, for the seven tags
SetTags(tag, m) ==
    [artist       |-> IF m.artist.some THEN m.artist ELSE tag.artist,
     title        |-> IF m.title.some THEN m.title ELSE tag.title,
     album        |-> IF m.album.some THEN m.album ELSE tag.album,
     year         |-> IF m.year.some THEN m.year ELSE tag.year,
     genre        |-> IF m.genre.some THEN m.genre ELSE tag.genre,
     track_number |-> IF m.track_number.some THEN m.track_number ELSE tag.track_number,
     album_artist |-> IF m.album_artist.some THEN m.album_artist ELSE tag.album_artist]

NewTag ==
    [artist |-> None, title |-> None, album |-> None, year |-> None,
     genre |-> None, track_number |-> None, album_artist |-> None]

\* a variant that writes the tag to original_file
WriteTags_to_original ==
    /\ pc = "tag"
    /\ LET data == disk[Resolve(PathNew(original))].data
           tag  == IF data.tag.some THEN data.tag.val ELSE NewTag
       IN  disk' = WriteFile(disk, PathNew(original),
                             [data EXCEPT !.tag = Some(SetTags(tag, updated))])
    /\ written' = written \cup {Resolve(PathNew(original))}
    /\ pc' = "done"
    /\ UNCHANGED <<report, saved_path, loaded, parseVars, agentVars, applyVars, allocVars>>

\* the tag of the copy is read (a new one if it has none), set and written
\* to the copy
WriteTags ==
    /\ pc = "tag"
    /\ LET data == disk[Resolve(output_path)].data
           tag  == IF data.tag.some THEN data.tag.val ELSE NewTag
       IN  disk' = WriteFile(disk, output_path,
                             [data EXCEPT !.tag = Some(SetTags(tag, updated))])
    /\ written' = written \cup {Resolve(output_path)}
    /\ pc' = "done"
    /\ UNCHANGED <<report, saved_path, loaded, parseVars, agentVars, applyVars, allocVars>>

(***************************************************************************)
(* The texts the model answers with: up to MaxBlocks blocks, each followed *)
(* by the "---" line the prompt asks for (observe_for_suggestions).        *)
(***************************************************************************)
MaxBlocks == 3

Line(kw, words) == <<kw, SP>> \o words \o <<NL>>

\* the blocks responses are made of, by name
BlockText(name) ==
    \* the well-formed block of the prompt's convention
    CASE name = "title" ->
           Line(K_SUGGESTION, <<"title">>) \o Line(K_CURRENT, <<"None">>)
           \o Line(K_SUGGESTED, <<"Friend", SP, "Devil">>)
           \o Line(K_CONFIDENCE, <<"High">>) \o Line(K_REASON, <<"tag", SP, "missing">>)
    \* SUGGESTION: and CURRENT: but no SUGGESTED: line
      [] name = "year_no_suggested" ->
           Line(K_SUGGESTION, <<"year">>) \o Line(K_CURRENT, <<"None">>)
    \* a SUGGESTED: line with nothing after it
      [] name = "artist_empty" ->
           Line(K_SUGGESTION, <<"artist">>) \o <<SP, K_SUGGESTED, SP, SP, NL>>
      [] name = "artist_A" ->
           Line(K_SUGGESTION, <<"artist">>) \o Line(K_CURRENT, <<"Old">>)
           \o Line(K_SUGGESTED, <<"A">>)
    \* indented lines, no CURRENT:, no trailing newline
      [] name = "artist_B" ->
           <<SP, SP, K_SUGGESTION, "artist", NL, "\t", K_SUGGESTED, SP, "B", SP>>
      [] name = "sentinel" ->
           <<SENTINEL, NL>>
    \* the sentinel inside a block that lacks SUGGESTED:
      [] name = "reason_sentinel" ->
           Line(K_SUGGESTION, <<"genre">>) \o Line(K_REASON, <<"not", SP, SENTINEL>>)
    \* the rationale mentions its own prefix
      [] name = "reason_mentions" ->
           Line(K_SUGGESTION, <<"genre">>) \o Line(K_SUGGESTED, <<"Rock">>)
           \o Line(K_REASON, <<"see", SP, K_REASON, SP, "above">>)
    \* a second CURRENT: line saying None
      [] name = "current_twice" ->
           Line(K_SUGGESTION, <<"album">>) \o Line(K_CURRENT, <<"Old">>)
           \o Line(K_CURRENT, <<"None">>) \o Line(K_SUGGESTED, <<"New">>)
    \* a label outside High/Medium/Low
      [] name = "confidence_other" ->
           Line(K_SUGGESTION, <<"year">>) \o Line(K_SUGGESTED, <<"1", "9", "9", "9">>)
           \o Line(K_CONFIDENCE, <<"Certain">>)
      [] name = "prose" ->
           <<"OVERALL_ASSESSMENT", SP, "fine", NL>>
      [] name = "blank" ->
           <<SP, NL>>
    \* SUGGESTED: without any SUGGESTION: line
      [] name = "no_field" ->
           Line(K_SUGGESTED, <<"X">>)
    \* the keyword occurs, but no line starts with it
      [] name = "inline_keyword" ->
           <<"the", SP, K_SUGGESTION, SP, "title", NL>> \o Line(K_SUGGESTED, <<"T">>)
    \* a dash in the value, and a fourth dash before "---"
      [] name = "dashes" ->
           Line(K_SUGGESTION, <<"title">>) \o Line(K_SUGGESTED, <<"a", "-", "b">>) \o <<"-">>

\* the blocks that occur at any place of a response
BlockTexts ==
    {BlockText(name) :
        name \in {"title", "year_no_suggested", "artist_empty", "artist_A",
                  "reason_sentinel", "inline_keyword"}}

\* the ways a response ends: a last block without its "---" line, the
\* sentinel or prose after the blocks, a block whose last line is a dash
LastTexts ==
    {BlockText(name) :
        name \in {"artist_B", "sentinel", "prose", "blank", "current_twice",
                  "confidence_other", "reason_mentions", "no_field"}}
    \cup {BlockText("dashes") \o SEPARATOR \o <<NL>>}

RECURSIVE Texts(_)
Texts(n) ==
    IF n = 0 THEN {<<>>}
    ELSE Texts(n - 1) \cup
         {t \o b \o SEPARATOR \o <<NL>> : t \in Texts(n - 1), b \in BlockTexts}

Responses == Texts(MaxBlocks) \cup {t \o b : t \in Texts(MaxBlocks - 1), b \in LastTexts}

(***************************************************************************)
(* Specification of the parser alone                                       *)
(***************************************************************************)
InitParse ==
    /\ pc = "parse"
    /\ response \in Responses
    /\ parsed = <<>>
    /\ metadata = Unused /\ llm = NoCall
    /\ report = Unused /\ saved_path = NoPath /\ loaded = NotLoaded
    /\ updated = Unused /\ idx = 0
    /\ caller = Unused /\ original = Unused /\ output_path = NoPath /\ counter = 0
    /\ disk = Unused /\ written = {}

\* `let suggestions = self.parse_suggestions(&llm_response, metadata);`
ParseSuggestions ==
    /\ pc = "parse"
    /\ parsed' = parse_suggestions(response)
    /\ pc' = "parsed"
    /\ UNCHANGED <<response, agentVars, report, saved_path, loaded, applyVars,
                   allocVars, fsVars>>

NextParse == ParseSuggestions

SpecParse == InitParse /\ [][NextParse]_vars

(***************************************************************************)
(* What a block declares, read off its lines without the parser: the rest  *)
(* of the last line that starts with the prefix, trimmed.                  *)
(***************************************************************************)
Keywords == {K_SUGGESTION, K_CURRENT, K_SUGGESTED, K_CONFIDENCE, K_REASON}

HasKeyword(v) == \E i \in 1..Len(v) : v[i] \in Keywords

LinesWith(block, kw) ==
    {i \in 1..Len(Lines(block)) : StartsWith(Trim(Lines(block)[i]), <<kw>>)}

Declared(block, kw) ==
    LET at == LinesWith(block, kw) IN
    IF at = {} THEN <<>>
    ELSE LET i    == CHOOSE j \in at : \A k \in at : k <= j
             line == Trim(Lines(block)[i])
         IN  Trim(SubSeq(line, 2, Len(line)))

\* a SUGGESTION: line naming a field and a SUGGESTED: line giving a value
WellFormed(block) ==
    /\ Declared(block, K_SUGGESTION) # <<>>
    /\ Declared(block, K_SUGGESTED) # <<>>
    /\ ~HasKeyword(Declared(block, K_SUGGESTION))
    /\ ~HasKeyword(Declared(block, K_SUGGESTED))

\* no field name, or no SUGGESTED: line, or an empty one
Incomplete(block) ==
    Declared(block, K_SUGGESTION) = <<>> \/ Declared(block, K_SUGGESTED) = <<>>

RECURSIVE ExpectedPairs(_)
ExpectedPairs(blocks) ==
    IF blocks = <<>> THEN <<>>
    ELSE (IF WellFormed(Head(blocks))
          THEN <<<<Declared(Head(blocks), K_SUGGESTION),
                   Declared(Head(blocks), K_SUGGESTED)>>>>
          ELSE <<>>) \o ExpectedPairs(Tail(blocks))

Pairs(edits) == [i \in 1..Len(edits) |-> <<edits[i].field, edits[i].suggested_value>>]

BlocksOf(text) == Split(text, SEPARATOR)

AllClassified(text) ==
    \A i \in 1..Len(BlocksOf(text)) :
        WellFormed(BlocksOf(text)[i]) \/ Incomplete(BlocksOf(text)[i])

SentinelOccurs(text) == \E i \in 1..Len(text) : text[i] = SENTINEL

(***************************************************************************)
(* C5. Sentinel short-circuit: a text in which NO_SUGGESTIONS_NEEDED       *)
(* occurs at any position parses to the empty sequence, whatever           *)
(* well-formed blocks it also holds.                                       *)
(***************************************************************************)
C5_SentinelShortCircuit ==
    (pc = "parsed" /\ SentinelOccurs(response)) => parsed = <<>>

\* the sentinel after the start of a text that also holds a well-formed block
C5_Witness ==
    /\ pc = "parsed"
    /\ SentinelOccurs(response)
    /\ response[1] # SENTINEL
    /\ \E i \in 1..Len(BlocksOf(response)) : WellFormed(BlocksOf(response)[i])
    /\ parsed = <<>>

(***************************************************************************)
(* C6. Parser leniency.  Every edit returned has a non-empty field name    *)
(* and a non-empty proposed value; a block with a SUGGESTION: line and no  *)
(* SUGGESTED: line (or an empty one) contributes no edit, and every        *)
(* well-formed block contributes its edit, in order.  As amended this is   *)
(* stated of the texts in which the sentinel does not occur.               *)
(***************************************************************************)
EditsNonEmpty ==
    \A i \in 1..Len(parsed) :
        parsed[i].field # <<>> /\ parsed[i].suggested_value # <<>>

WellFormedBlocksKept ==
    AllClassified(response) => Pairs(parsed) = ExpectedPairs(BlocksOf(response))

C6_LeniencyWithoutSentinel ==
    (pc = "parsed" /\ ~SentinelOccurs(response)) =>
        (EditsNonEmpty /\ WellFormedBlocksKept)

\* C6 as stated, of every input text
C6_LeniencyEveryText ==
    pc = "parsed" => (EditsNonEmpty /\ WellFormedBlocksKept)

\* a block without SUGGESTED: between two well-formed blocks, both kept
C6_Witness ==
    /\ pc = "parsed"
    /\ ~SentinelOccurs(response)
    /\ Len(BlocksOf(response)) >= 3
    /\ WellFormed(BlocksOf(response)[1])
    /\ LinesWith(BlocksOf(response)[2], K_SUGGESTION) # {}
    /\ LinesWith(BlocksOf(response)[2], K_SUGGESTED) = {}
    /\ WellFormed(BlocksOf(response)[3])
    /\ Len(parsed) = 2

(***************************************************************************)
(* The reports apply_suggestions is run on: a snapshot with every tag      *)
(* absent or every tag present, and up to MaxEdits stored edits.           *)
(***************************************************************************)
MaxEdits == 2

SongPath == <<"public", "/", "originals", "/", "song", ".", "mp3">>

M_absent ==
    [file_path |-> SongPath, artist |-> None, title |-> None, album |-> None,
     year |-> None, genre |-> None, track_number |-> None,
     album_artist |-> None, duration_seconds |-> None]

M_present ==
    [file_path |-> SongPath, artist |-> Some(<<"Old">>), title |-> Some(<<"Song">>),
     album |-> Some(<<"LP">>), year |-> Some(1970), genre |-> Some(<<"Folk">>),
     track_number |-> Some(2), album_artist |-> Some(<<"Band">>),
     duration_seconds |-> Some(180)]

Edit(f, v) ==
    [field |-> <<f>>, current_value |-> None, suggested_value |-> v,
     confidence |-> <<"Medium">>, reason |-> <<>>]

StoredEdits ==
    {Edit("artist", <<"A">>), Edit("artist", <<"B">>), Edit("title", <<"T">>),
     Edit("album", <<"L">>), Edit("genre", <<"G">>), Edit("album_artist", <<"AA">>),
     Edit("year", <<"1", "9", "9", "9">>), Edit("year", <<"-", "5">>),
     Edit("year", <<"not", "-", "a", "-", "number">>),
     Edit("year", <<"1", "9", "9", "9", SP, "AD">>),
     Edit("year", <<"2", "1", "4", "7", "4", "8", "3", "6", "4", "8">>),
     Edit("track_number", <<"7">>), Edit("track_number", <<"+", "3">>),
     Edit("track_number", <<"-", "1">>), Edit("track_number", <<>>),
     Edit("composer", <<"X">>), Edit("Artist", <<"X">>)}

RECURSIVE EditSeqs(_)
EditSeqs(n) ==
    IF n = 0 THEN {<<>>}
    ELSE EditSeqs(n - 1) \cup {Append(es, e) : es \in EditSeqs(n - 1), e \in StoredEdits}

ApplyReports ==
    [file_path : {SongPath}, timestamp : {<<"2024">>},
     current_metadata : {M_absent, M_present},
     suggestions : EditSeqs(MaxEdits),
     llm_analysis : {<<"text">>}, should_apply : {FALSE}]

InitApply ==
    /\ pc = "apply"
    /\ loaded \in {Ok(r) : r \in ApplyReports}
    /\ updated = Unused /\ idx = 0
    /\ response = Unused /\ parsed = Unused
    /\ metadata = Unused /\ llm = NoCall
    /\ report = Unused /\ saved_path = NoPath
    /\ caller = Unused /\ original = Unused /\ output_path = NoPath /\ counter = 0
    /\ disk = Unused /\ written = {}

NextApply == ApplyClone \/ ApplyNext \/ ApplyReturn

SpecApply == InitApply /\ [][NextApply]_vars

(***************************************************************************)
(* Reading the stored edits without the loop                               *)
(***************************************************************************)
StringFields == {"artist", "title", "album", "genre", "album_artist"}
KnownFields  == StringFields \cup {"year", "track_number"}

EditsFor(edits, f) == {i \in 1..Len(edits) : edits[i].field = <<f>>}

Last(S) == CHOOSE i \in S : \A j \in S : j <= i

LastValueFor(edits, f) == edits[Last(EditsFor(edits, f))].suggested_value

\* the edits for a numeric field whose proposed value parses
ParsingFor(edits, f) ==
    {i \in EditsFor(edits, f) :
        IF f = "year" THEN ParseI32(edits[i].suggested_value).ok
                      ELSE ParseU32(edits[i].suggested_value).ok}

ParsedValue(f, v) == IF f = "year" THEN ParseI32(v) ELSE ParseU32(v)

(***************************************************************************)
(* C3. Last-write-wins.  As stated: for each of the seven field names with *)
(* one or more stored edits, the returned field holds the value the last   *)
(* edit for it proposes.  As amended: that holds of the five text fields;  *)
(* year and track_number hold the integer parsed from the last edit for    *)
(* the field whose value parses, and the snapshot's value if none parses.  *)
(***************************************************************************)
TextFieldsLastWins ==
    \A f \in StringFields :
        EditsFor(loaded.val.suggestions, f) # {} =>
            updated[f] = Some(LastValueFor(loaded.val.suggestions, f))

NumericFieldsLastWins ==
    \A f \in {"year", "track_number"} :
        EditsFor(loaded.val.suggestions, f) # {} =>
            /\ ParsedValue(f, LastValueFor(loaded.val.suggestions, f)).ok
            /\ updated[f] = Some(ParsedValue(f, LastValueFor(loaded.val.suggestions, f)).val)

NumericFieldsLastParsingWins ==
    \A f \in {"year", "track_number"} :
        EditsFor(loaded.val.suggestions, f) # {} =>
            IF ParsingFor(loaded.val.suggestions, f) = {}
            THEN updated[f] = loaded.val.current_metadata[f]
            ELSE updated[f] =
                   Some(ParsedValue(f,
                        loaded.val.suggestions[Last(ParsingFor(loaded.val.suggestions, f))]
                            .suggested_value).val)

C3_LastWriteWinsAmended ==
    pc = "applied" => (TextFieldsLastWins /\ NumericFieldsLastParsingWins)

\* C3 as stated, of all seven fields
C3_LastWriteWinsEveryField ==
    pc = "applied" => (TextFieldsLastWins /\ NumericFieldsLastWins)

\* artist -> "A" then artist -> "B" has yielded artist = "B"
C3_Witness ==
    /\ pc = "applied"
    /\ Len(loaded.val.suggestions) = 2
    /\ loaded.val.suggestions[1] = Edit("artist", <<"A">>)
    /\ loaded.val.suggestions[2] = Edit("artist", <<"B">>)
    /\ updated.artist = Some(<<"B">>)

(***************************************************************************)
(* C7. Ignored edits leave the record unchanged: an edit for year whose    *)
(* value does not parse as an i32, an edit for track_number whose value    *)
(* does not parse as a u32, and an edit for a field name outside the seven *)
(* known names each leave every field of the record being built as it was, *)
(* and the loop goes on to the next edit.                                  *)
(***************************************************************************)
IgnoredEdit(e) ==
    \/ e.field = <<"year">> /\ ~ParseI32(e.suggested_value).ok
    \/ e.field = <<"track_number">> /\ ~ParseU32(e.suggested_value).ok
    \/ \A f \in KnownFields : e.field # <<f>>

C7_IgnoredEditsLeaveRecord ==
    [][(pc = "apply_loop" /\ idx <= Len(loaded.val.suggestions)
            /\ IgnoredEdit(loaded.val.suggestions[idx]))
          => (updated' = updated /\ idx' = idx + 1 /\ pc' = "apply_loop")]_vars

\* year -> "not-a-number" was met with year present, and year is still there
C7_Witness ==
    /\ pc = "apply_loop"
    /\ idx = 2
    /\ loaded.val.suggestions[1] = Edit("year", <<"not", "-", "a", "-", "number">>)
    /\ loaded.val.current_metadata = M_present
    /\ updated = M_present

(***************************************************************************)
(* The source files and file systems the two modes are run on.  A source   *)
(* is there or not; in each directory an edited copy could go to, any of   *)
(* the first MaxTaken names (song.mp3, song-1.mp3, ...) may be taken.      *)
(***************************************************************************)
MaxTaken == 3

SourcePaths ==
    {<<"public", SLASH, "originals", SLASH, "song", DOT, "mp3">>,
     <<SLASH, "music", SLASH, "originals", SLASH, "song", DOT, "mp3">>,
     <<"public", SLASH, "song", DOT, "mp3">>,
     <<"test", SLASH, "song", DOT, "mp3">>,
     <<"originals", SLASH, "song", DOT, "mp3">>,
     <<"song", DOT, "mp3">>,
     <<DOT, SLASH, "song", DOT, "mp3">>,
     <<"lib", SLASH, SLASH, "live", DOT, "updated", DOT, "mp3">>,
     <<"lib", SLASH, DOT, "hidden">>,
     <<"test", SLASH, "updated">>,
     <<SLASH, "song", DOT, "mp3">>,
     <<SLASH>>,
     <<>>}

OriginalTag == [NewTag EXCEPT !.artist = Some(<<"Old">>), !.year = Some(1970)]
OriginalData == [audio |-> "original", tag |-> Some(OriginalTag)]
OtherData    == [audio |-> "other", tag |-> None]

EmptyDisk == (<<>> :> Dir) @@ (<<RootDir>> :> Dir)

\* the file system with one more file, and the directories above it
Put(d, path, data) ==
    IF ~Parent(path).some THEN d
    ELSE LET made == CreateDirAll(d, Parent(path).val) IN
         IF made.ok /\ CanWrite(made.disk, path)
         THEN WriteFile(made.disk, path, data) ELSE made.disk

\* the directories an edited copy of the source could go to
CopyDirs(file) ==
    LET path == PathNew(file)
        up   == UnwrapOr(Parent(path), <<>>)
    IN  {up \o <<<<"updated">>>>,
         UnwrapOr(Parent(up), <<>>) \o <<<<"updated">>>>,
         <<<<"public">>, <<"updated">>>>}

CopyName(file, k) ==
    IF k = 0 THEN FirstName(Stem(file)) ELSE NumberedName(Stem(file), k)

RECURSIVE PutAll(_, _, _)
PutAll(d, paths, data) ==
    IF paths = {} THEN d
    ELSE LET q == CHOOSE x \in paths : TRUE IN
         PutAll(Put(d, q, data), paths \ {q}, data)

DiskWith(file, present, taken) ==
    PutAll(IF present THEN Put(EmptyDisk, PathNew(file), OriginalData) ELSE EmptyDisk,
           {dir \o <<CopyName(file, k)>> : dir \in CopyDirs(file), k \in taken},
           OtherData)

Disks(file) ==
    {DiskWith(file, present, taken) :
        present \in BOOLEAN, taken \in SUBSET (0..(MaxTaken - 1))}

\* the report suggestions mode built for the source: two edits, or none
ReportFor(file, edits) ==
    [file_path |-> file, timestamp |-> <<"2024">>,
     current_metadata |-> [M_absent EXCEPT !.file_path = file],
     suggestions |-> edits, llm_analysis |-> BlockText("artist_A"), should_apply |-> FALSE]

PipelineEdits ==
    {<<>>, <<Edit("artist", <<"A">>), Edit("year", <<"1", "9", "9", "9">>)>>}

\* suggestions mode is about to save its report; or the unit test is about to
\* call create_output_path
Init ==
    /\ \E file \in SourcePaths :
          /\ disk \in Disks(file)
          /\ \/ /\ pc = "save"
                /\ caller = "apply"
                /\ report \in {ReportFor(file, es) : es \in PipelineEdits}
                /\ original = Unused
             \/ /\ pc = "alloc"
                /\ caller = "test"
                /\ report = Unused
                /\ original = file
    /\ written = {}
    /\ saved_path = NoPath /\ loaded = NotLoaded
    /\ updated = Unused /\ idx = 0
    /\ output_path = NoPath /\ counter = 0
    /\ response = Unused /\ parsed = Unused
    /\ metadata = Unused /\ llm = NoCall

Next ==
    \/ SaveToFile
    \/ LoadFromFile
    \/ ListSuggestions
    \/ ApplyClone
    \/ ApplyNext
    \/ ApplyReturn
    \/ WriteCheck
    \/ CreateOutputPath
    \/ AllocNext
    \/ AllocReturn
    \/ CopyOriginal
    \/ WriteTags

Spec == Init /\ [][Next]_vars

(***************************************************************************)
(* Saving and loading alone: reports whose strings need every escape, on   *)
(* a file system that is empty, holds a stale artifact, or has a file      *)
(* where the directory of artifacts should be.                             *)
(***************************************************************************)
MaxStored == 2

PersistPaths ==
    {SongPath,
     <<"song", DOT, "mp3">>,
     <<"lib", SLASH, "my", SP, QUOTE, "song", QUOTE, DOT, "mp3">>}

PersistTexts ==
    {<<>>,
     BlockText("artist_A"),
     <<QUOTE, "x", BACKSLASH, "n", QUOTE, SP, "null">>,
     <<BACKSLASH, BACKSLASH, QUOTE, TAB, CR, "{", "}", ",">>}

M_escaped ==
    [M_present EXCEPT !.artist = Some(<<"AC", SLASH, "DC", SP, QUOTE, "live", QUOTE>>),
                      !.title = Some(<<>>),
                      !.album = Some(<<"null">>),
                      !.year = Some(-5),
                      !.track_number = Some(0)]

PersistEdits ==
    {Edit("artist", <<"A">>),
     [field |-> <<"no", SP, "such", SP, "field">>,
      current_value |-> Some(<<>>),
      suggested_value |-> <<QUOTE, BACKSLASH>>,
      confidence |-> <<"certain">>,
      reason |-> <<"two", NL, "lines">>],
     [field |-> <<"year">>,
      current_value |-> Some(<<"null">>),
      suggested_value |-> <<"1", "9", "9", "9">>,
      confidence |-> <<"High">>,
      reason |-> <<BACKSLASH, "n">>]}

PersistEditSeqs ==
    UNION {[1..n -> PersistEdits] : n \in 0..MaxStored}

PersistReports ==
    {[file_path |-> file, timestamp |-> ts, current_metadata |-> m,
      suggestions |-> es, llm_analysis |-> text, should_apply |-> flag] :
        file \in PersistPaths, ts \in {<<"2024">>, <<QUOTE>>},
        m \in {M_absent, M_escaped},
        es \in PersistEditSeqs, text \in PersistTexts, flag \in BOOLEAN}

PersistDisks(file) ==
    {EmptyDisk,
     Put(EmptyDisk, suggestions_path(file), <<"stale">>),
     Put(EmptyDisk, suggestions_dir(PathNew(file)), <<"stale">>)}

InitPersist ==
    /\ pc = "save"
    /\ report \in PersistReports
    /\ disk \in PersistDisks(report.file_path)
    /\ written = {}
    /\ saved_path = NoPath /\ loaded = NotLoaded
    /\ updated = Unused /\ idx = 0
    /\ caller = Unused /\ original = Unused /\ output_path = NoPath /\ counter = 0
    /\ response = Unused /\ parsed = Unused
    /\ metadata = Unused /\ llm = NoCall

NextPersist ==
    \/ SaveToFile
    \/ LoadFromFile

SpecPersist == InitPersist /\ [][NextPersist]_vars

(***************************************************************************)
(* C1. Round trip: when save_to_file succeeds and returns a path,          *)
(* load_from_file of that path succeeds and returns a report equal to the  *)
(* saved one in every field, the edits in their order and the raw model    *)
(* text unchanged.                                                         *)
(***************************************************************************)
\* save_to_file has returned a path
Saved == saved_path # NoPath

\* and load_from_file has been called on it
Loaded == Saved /\ pc # "saved"

C1_RoundTrip == Loaded => loaded = Ok(report)

\* a report with two edits and a raw text of quotes and backslashes came back
C1_Witness ==
    /\ Loaded
    /\ loaded.ok
    /\ Len(loaded.val.suggestions) = 2
    /\ loaded.val.suggestions[1] # loaded.val.suggestions[2]
    /\ Contains(loaded.val.llm_analysis, <<BACKSLASH, BACKSLASH, QUOTE>>)
    /\ loaded.val.current_metadata.year = Some(-5)
    /\ loaded.val.should_apply

(***************************************************************************)
(* Reading the scenario: the source file, and what the claims say of it    *)
(***************************************************************************)
\* the components of a path string, but for its last one
Above(file) == SubSeq(PathNew(file), 1, Len(PathNew(file)) - 1)

\* the directory the claims derive for a source that has a parent directory
ClaimedDir(file, leaf) ==
    LET P == Above(file) IN
    IF P # <<>> /\ P[Len(P)] = <<"originals">>
    THEN SubSeq(P, 1, Len(P) - 1) \o <<<<leaf>>>>
    ELSE P \o <<<<leaf>>>>

\* a bare file name: no directory component at all
BareName(file) ==
    /\ file # <<>>
    /\ \A i \in 1..Len(file) : file[i] # SLASH
    /\ file \notin {CurDir, ParentDir}

\* create_output_path has returned and nothing was written since
Allocated == pc \in {"copy", "asserted"}

\* the k-th name for a copy is taken in the directory of updated copies
Taken(k) ==
    Exists(disk,
           updated_dir(PathNew(original))
               \o <<IF k = 0 THEN Stem(original) \o <<DOT, "mp3">>
                    ELSE Stem(original) \o <<"-">> \o Numeral(k) \o <<DOT, "mp3">>>>)

(***************************************************************************)
(* C2. The original is never written: the path write_metadata_safely       *)
(* copies to and writes tags to is not the original path, no step writes   *)
(* to the original path, and the original file keeps its content.          *)
(***************************************************************************)
SourceKey == Resolve(PathNew(report.file_path))

C2_OriginalNeverWritten ==
    caller = "apply" =>
        /\ SourceKey \notin written
        /\ (SourceKey \in DOMAIN disk /\ disk[SourceKey].kind = "file")
               => disk[SourceKey].data = OriginalData
        /\ (pc \in {"copy", "tag", "done"} /\ output_path # NoPath) =>
               /\ original = report.file_path
               /\ Resolve(output_path) # SourceKey

\* the copy carries the new artist, and the original still has its own tag
C2_Witness ==
    /\ caller = "apply"
    /\ pc = "done"
    /\ Resolve(output_path) \in written
    /\ disk[Resolve(output_path)].data.audio = "original"
    /\ disk[Resolve(output_path)].data.tag.val.artist = Some(<<"A">>)
    /\ disk[SourceKey].data = OriginalData

C8_BareNameFallsBack ==
    /\ (caller = "apply" /\ Saved /\ BareName(report.file_path)) =>
           Above(saved_path) = <<<<"public">>, <<"suggestions">>>>
    /\ (Allocated /\ BareName(original)) =>
           SubSeq(output_path, 1, Len(output_path) - 1)
               = <<<<"public">>, <<"updated">>>>

(***************************************************************************)
(* C9. Directory derivation is one rule at both call sites: for a source   *)
(* with a parent directory P, the artifact goes to <parent of P>/suggestions *)
(* and the copy to <parent of P>/updated when P's last component is        *)
(* originals, and to P/suggestions and P/updated otherwise, public         *)
(* included; the two directories differ in the leaf name only.             *)
(***************************************************************************)
HasParent(file) == Above(file) # <<>>

C9_DirectoryDerivation ==
    /\ (caller = "apply" /\ Saved /\ HasParent(report.file_path)) =>
           Above(saved_path) = ClaimedDir(report.file_path, "suggestions")
    /\ (Allocated /\ HasParent(original)) =>
           SubSeq(output_path, 1, Len(output_path) - 1)
               = ClaimedDir(original, "updated")
    /\ (caller = "apply" /\ Allocated /\ HasParent(original)) =>
           /\ Len(Above(saved_path)) = Len(output_path) - 1
           /\ \A i \in 1..(Len(output_path) - 2) : Above(saved_path)[i] = output_path[i]

\* .../public/originals/song.mp3: public/suggestions/ and public/updated/
C9_Witness ==
    /\ caller = "apply"
    /\ Allocated
    /\ original = <<"public", SLASH, "originals", SLASH, "song", DOT, "mp3">>
    /\ saved_path = <<"public", SLASH, "suggestions", SLASH,
                      "song", DOT, "suggestions", DOT, "json">>
    /\ to_string_lossy(output_path)
           = <<"public", SLASH, "updated", SLASH, "song", DOT, "mp3">>

(***************************************************************************)
(* C10. As test_output_path_creation asserts: the path create_output_path  *)
(* returns contains ".updated.mp3".                                        *)
(***************************************************************************)
C10_UpdatedSuffix ==
    Allocated => Contains(to_string_lossy(output_path), <<DOT, "updated", DOT, "mp3">>)

(***************************************************************************)
(* The edits of a text, block by block: when every block of the text is    *)
(* well-formed or incomplete, the edits returned are those of its          *)
(* well-formed blocks.                                                     *)
(***************************************************************************)
Sources(text) == SelectSeq(BlocksOf(text), WellFormed)

\* parse_suggestions has returned the edits of a text without the sentinel,
\* one for each of its well-formed blocks
Aligned ==
    /\ pc = "parsed"
    /\ ~SentinelOccurs(response)
    /\ AllClassified(response)
    /\ Len(parsed) = Len(Sources(response))

(***************************************************************************)
(* C11. As stated: every edit returned by parse_suggestions has a          *)
(* confidence label that is one of High, Medium, Low; it is Medium when    *)
(* the block has no CONFIDENCE: line or one with another value.            *)
(***************************************************************************)
Labels == {<<"High">>, <<"Medium">>, <<"Low">>}

C11_ConfidenceLabel ==
    /\ pc = "parsed" =>
           \A i \in 1..Len(parsed) : parsed[i].confidence \in Labels
    /\ Aligned =>
           \A i \in 1..Len(parsed) :
               Declared(Sources(response)[i], K_CONFIDENCE) \notin Labels
                   => parsed[i].confidence = <<"Medium">>

(***************************************************************************)
(* C12. As stated: the prior value of an edit is the trimmed value of the  *)
(* last CURRENT: line of its block, and is absent when that value is None  *)
(* or empty or the block has no CURRENT: line, whatever an earlier         *)
(* CURRENT: line of the block carried.                                     *)
(***************************************************************************)
C12_PriorFromLastCurrent ==
    Aligned =>
        \A i \in 1..Len(parsed) :
            LET last == Declared(Sources(response)[i], K_CURRENT) IN
            parsed[i].current_value =
                (IF last \in {<<>>, <<"None">>} THEN None ELSE Some(last))

(***************************************************************************)
(* C13. As stated: the value a recognised line assigns is the rest of the  *)
(* line after its leading prefix, trimmed, with nothing else removed, also *)
(* when the prefix occurs again later in the line.                         *)
(***************************************************************************)
C13_PrefixStripped ==
    Aligned =>
        \A i \in 1..Len(parsed) :
            LET block == Sources(response)[i] IN
            /\ parsed[i].field = Declared(block, K_SUGGESTION)
            /\ parsed[i].suggested_value = Declared(block, K_SUGGESTED)
            /\ LinesWith(block, K_CONFIDENCE) # {} =>
                   parsed[i].confidence = Declared(block, K_CONFIDENCE)
            /\ LinesWith(block, K_REASON) # {} =>
                   parsed[i].reason = Declared(block, K_REASON)

(***************************************************************************)
(* C14. Order preservation without deduplication: for a text without the   *)
(* sentinel, parse_suggestions returns exactly one edit for each block     *)
(* that yields a non-empty field name and proposed value, in the order of  *)
(* the blocks; two blocks naming the same field both appear, the earlier   *)
(* before the later.                                                       *)
(***************************************************************************)
C14_OrderPreserved ==
    (pc = "parsed" /\ ~SentinelOccurs(response) /\ AllClassified(response)) =>
        LET sources == Sources(response) IN
        /\ Len(parsed) = Len(sources)
        /\ \A i \in 1..Len(parsed) :
               /\ parsed[i].field = Declared(sources[i], K_SUGGESTION)
               /\ parsed[i].suggested_value = Declared(sources[i], K_SUGGESTED)

\* two blocks for artist, A before B, with another block between them
C14_Witness ==
    /\ pc = "parsed"
    /\ ~SentinelOccurs(response)
    /\ Len(parsed) = 3
    /\ parsed[1].field = <<"artist">> /\ parsed[1].suggested_value = <<"A">>
    /\ parsed[2].field = <<"title">>
    /\ parsed[3].field = <<"artist">> /\ parsed[3].suggested_value = <<"B">>

(***************************************************************************)
(* Suggestions mode (main.rs): the metadata has been read; the agent asks  *)
(* the model once (analyze_with_suggestions, `self.think(..).await?`),     *)
(* parses the answer, builds the report, and main saves it.                *)
(***************************************************************************)
\* a variant that goes on with an empty answer when the model fails
Think_default_on_error ==
    /\ pc = "think"
    /\ \/ \E text \in {<<>>, BlockText("sentinel")} :
             /\ response' = text
             /\ llm' = [calls |-> llm.calls + 1, failed |-> FALSE]
       \/ /\ response' = <<>>
          /\ llm' = [calls |-> llm.calls + 1, failed |-> TRUE]
    /\ pc' = "parse"
    /\ UNCHANGED <<parsed, metadata, report, saved_path, loaded, applyVars,
                   allocVars, fsVars>>

\* the answers of the model
Answers ==
    {<<>>,
     BlockText("sentinel"),
     BlockText("prose"),
     BlockText("year_no_suggested") \o SEPARATOR \o <<NL>>,
     BlockText("title") \o SEPARATOR \o <<NL>> \o BlockText("artist_A")
         \o SEPARATOR \o <<NL>> \o BlockText("prose")}

\* `let llm_response = self.think(&observation).await?;`: generate returns
\* the text, or an error that `?` returns to main, which returns it
Think ==
    /\ pc = "think"
    /\ \/ \E text \in Answers :
             /\ response' = text
             /\ llm' = [calls |-> llm.calls + 1, failed |-> FALSE]
             /\ pc' = "parse"
       \/ /\ llm' = [calls |-> llm.calls + 1, failed |-> TRUE]
          /\ pc' = "failed"
          /\ UNCHANGED response
    /\ UNCHANGED <<parsed, metadata, report, saved_path, loaded, applyVars,
                   allocVars, fsVars>>

\* chrono::Local::now().to_rfc3339(), whatever the clock says
Timestamps == {<<"2024">>, <<"2025">>}

\* SuggestionsReport::new
SuggestionsReport_new(file_path, current_metadata, suggestions, llm_analysis, now) ==
    [file_path |-> file_path, timestamp |-> now,
     current_metadata |-> current_metadata, suggestions |-> suggestions,
     llm_analysis |-> llm_analysis, should_apply |-> FALSE]

\* `let report = SuggestionsReport::new(..); Ok(report)`, and main goes on to
\* save_to_file
NewReport ==
    /\ pc = "parsed"
    /\ \E now \in Timestamps :
          report' = SuggestionsReport_new(metadata.file_path, metadata, parsed,
                                          response, now)
    /\ pc' = "save"
    /\ UNCHANGED <<parseVars, agentVars, saved_path, loaded, applyVars,
                   allocVars, fsVars>>

\* read_metadata has returned the tags of a file that is there
InitSuggest ==
    /\ pc = "think"
    /\ \E file \in PersistPaths :
          /\ metadata \in {[M_absent EXCEPT !.file_path = file],
                           [M_present EXCEPT !.file_path = file]}
          /\ disk \in {Put(d, PathNew(file), OriginalData) : d \in PersistDisks(file)}
    /\ llm = NoCall
    /\ response = Unused /\ parsed = Unused
    /\ report = Unused /\ saved_path = NoPath /\ loaded = NotLoaded
    /\ updated = Unused /\ idx = 0
    /\ caller = Unused /\ original = Unused /\ output_path = NoPath /\ counter = 0
    /\ written = {}

NextSuggest ==
    \/ Think
    \/ ParseSuggestions
    \/ NewReport
    \/ SaveToFile

SpecSuggest == InitSuggest /\ [][NextSuggest]_vars

(***************************************************************************)
(* C15. Model failure is terminal and leaves no artifact: generate is      *)
(* called at most once; when it fails the invocation ends with the error,  *)
(* without another call, without parse_suggestions or save_to_file, and    *)
(* without a file or directory created; save_to_file runs only after a     *)
(* generate that succeeded and the parse of its answer.                    *)
(***************************************************************************)
SavingOrSaved == pc = "save" \/ Saved \/ written # {}

OnceAndInOrder ==
    /\ llm.calls <= 1
    /\ llm.failed => (pc = "failed" /\ written = {} /\ ~Saved)
    /\ SavingOrSaved =>
           /\ llm = [calls |-> 1, failed |-> FALSE]
           /\ report.suggestions = parsed
           /\ report.llm_analysis = response

FailureEndsTheRun ==
    llm'.failed =>
        /\ pc = "think"
        /\ ~llm.failed
        /\ UNCHANGED <<fsVars, saved_path, report, parseVars, metadata>>

C15_ModelFailureTerminal == []OnceAndInOrder /\ [][FailureEndsTheRun]_vars

\* the model failed: the run is over, and the directory of artifacts that
\* was not there is still not there
C15_Witness ==
    /\ llm = [calls |-> 1, failed |-> TRUE]
    /\ pc = "failed"
    /\ IsFile(disk, PathNew(metadata.file_path))
    /\ ~Exists(disk, suggestions_dir(PathNew(metadata.file_path)))

====
